---- MODULE Spec2Model ----
(***************************************************************************)
(* Docxodus-Viewer: the conversion orchestrator (DocumentViewer), the     *)
(* revision panel (RevisionPanel) and the annotation viewer                *)
(* (AnnotationViewer).  Each component has its own variables and its own   *)
(* specification; the other components stay as they start.                 *)
(*                                                                         *)
(* The component state, its event handlers and the guards of its controls  *)
(* are those of src/src/components/DocumentViewer.tsx.  The conversion     *)
(* state it reads (html / isConverting / error) and the two functions it   *)
(* calls (convert, clear) come from the useConversion hook, whose body is  *)
(* not among the sources; the hook, the error-notification channel and the *)
(* controlled-mode wiring are written from the design document (sections   *)
(* 4.1, 5 and 7) and from the README's controlled-mode example.            *)
(*                                                                         *)
(* An optional value (File | null, string | null, x | undefined) is a      *)
(* sequence of length at most one: <<>> is the absent value.               *)
(***************************************************************************)
EXTENDS Integers, Sequences, FiniteSets, TLC

\* ---------------------------------------------------------------- bounds
MaxRequests == 3      \* engine calls issued in one run
MaxEdits == 2         \* settings-field changes in one run

\* ---------------------------------------------------------------- domains
Null == <<>>
Some(x) == <<x>>

Files == {"a.docx", "b.docx"}
EngineErrors == {"e1", "e2"}

CommentModes == {"disabled", "endnote", "inline", "margin"}
Scales == {5, 8, 15}                  \* tenths: the slider runs 0.5 .. 1.5
PageTitles == {"Document", "T"}
CssPrefixes == {"docx-", "p-"}
CommentCssPrefixes == {"comment-", "c-"}
AdditionalCsses == {"", ".x{}"}

VARIABLES
    \* DocumentViewer (component state)
    fileName, commentMode, pendingFile,
    enablePagination, paginationScale, showPageNumbers,
    pageTitle, cssPrefix, fabricateClasses, additionalCss,
    commentCssClassPrefix, showAdvanced,
    \* useConversion
    html, isConverting, error,
    requestSeq,        \* number of conversion requests issued so far
    currentReq,        \* id of the request whose result is awaited; 0: none
    inflight,          \* requests handed to the engine and not yet resolved
    \* host
    host,              \* what the host passes to the viewer (see Hosts)
    extFile, extHtml,  \* the controlling host's own file and html
    onErrorLog,        \* errors delivered to the host's onError, oldest first
    \* bookkeeping
    edits,             \* settings-field changes made so far
    lastEvent          \* the handler or callback that ran last

settingsVars == <<commentMode, enablePagination, paginationScale, showPageNumbers,
                  pageTitle, cssPrefix, fabricateClasses, additionalCss,
                  commentCssClassPrefix>>
fileVars == <<fileName, pendingFile>>
hookVars == <<html, isConverting, error, requestSeq, currentReq, inflight>>
hostVars == <<host, extFile, extHtml, onErrorLog>>
viewerVars == <<fileVars, settingsVars, showAdvanced, hookVars, hostVars, edits>>

VARIABLES
    \* RevisionPanel (prop and component state)
    revisions, filter, expandedIds

panelVars == <<revisions, filter, expandedIds>>

VARIABLES
    \* AnnotationViewer (component state; file and fileName in the source)
    annotFile, annotFileName,
    showAddForm, newAnnotation, isAdding, addError,
    \* useAnnotations, useDocumentStructure
    annotations, documentBytes, isLoadingAnnotations, isLoadingStructure,
    calls,             \* add and remove calls the engine has not answered yet
    callSeq,           \* number of add and remove calls issued so far
    \* what leaves the component
    uncaught,          \* an exception has left a handler
    downloaded         \* the file the last step has handed to the browser

annotVars == <<annotFile, annotFileName, showAddForm, newAnnotation, isAdding,
               addError, annotations, documentBytes, isLoadingAnnotations,
               isLoadingStructure, calls, callSeq, uncaught, downloaded>>

\* What the document viewer's handlers never touch.
otherViews == <<panelVars, annotVars>>
vars == <<viewerVars, otherViews, lastEvent>>

\* ---------------------------------------------------------------- options
getCommentRenderMode(mode) ==
    CASE mode = "endnote" -> "EndnoteStyle"
      [] mode = "inline" -> "Inline"
      [] mode = "margin" -> "Margin"
      [] OTHER -> "Disabled"

PaginationModeOf(enabled) == IF enabled THEN "Paginated" ELSE "None"

getConvertOptions ==
    [commentRenderMode |-> getCommentRenderMode(commentMode),
     pageTitle |-> pageTitle,
     cssPrefix |-> cssPrefix,
     fabricateClasses |-> fabricateClasses,
     additionalCss |-> IF additionalCss = "" THEN Null ELSE Some(additionalCss),
     commentCssClassPrefix |-> commentCssClassPrefix,
     paginationMode |-> PaginationModeOf(enablePagination),
     paginationScale |-> IF enablePagination THEN Some(paginationScale) ELSE Null]

\* ---------------------------------------------------------------- useConversion
Request(id, file, options) == [id |-> id, file |-> file, options |-> options]

\* Faulty variant: every result is taken for the awaited one.
IsCurrentAny(r) == TRUE

\* The result of request r is awaited: r is the most recently issued request
\* and no clear() has come since.
IsCurrent(r) == r.id = currentReq

\* convert(file, options): the in-flight flag is raised at once, the request
\* goes to the engine, the displayed result stays until the new one arrives.
convert(file, options) ==
    /\ requestSeq < MaxRequests
    /\ requestSeq' = requestSeq + 1
    /\ currentReq' = requestSeq + 1
    /\ inflight' = inflight \cup {Request(requestSeq + 1, file, options)}
    /\ isConverting' = TRUE
    /\ UNCHANGED <<html, error>>

\* Faulty variant: clear() that does not cancel the interest in the request
\* in flight.
clearKeepsInterest(h) == [h EXCEPT !.html = Null, !.error = Null,
                                   !.isConverting = FALSE]

\* clear() on the conversion state h: result and error discarded, interest in
\* any in-flight result cancelled.
clear(h) == [h EXCEPT !.html = Null, !.error = Null,
                      !.isConverting = FALSE, !.currentReq = 0]

\* Faulty variant: convert is called whether or not a file is loaded.
convertAlways(options) ==
    convert(IF pendingFile # Null THEN pendingFile[1] ELSE "", options)

\* if (pendingFile) { await convert(pendingFile, options) }
convertIfLoaded(options) ==
    IF pendingFile # Null
    THEN convert(pendingFile[1], options)
    ELSE UNCHANGED hookVars

reconvert == convertIfLoaded(getConvertOptions)

\* ---------------------------------------------------------------- host
\* "none": no props (the component as it stands in the sources);
\* "onError": an onError callback only;
\* "controlled": file, html, onFileChange and onConversionComplete, the host
\* storing what the callbacks tell it.
Hosts == {"none", "onError", "controlled"}

controlled == host = "controlled"

\* onFileChange(file): the controlling host stores what it is told.
onFileChange(file) == extFile' = IF controlled THEN file ELSE extFile

\* onConversionComplete(html)
onConversionComplete(h) == extHtml' = IF controlled THEN h ELSE extHtml

\* onError(error)
onError(e) ==
    onErrorLog' = IF host = "onError" THEN Append(onErrorLog, e) ELSE onErrorLog

\* Faulty variant: the internal html is rendered in either mode.
RenderedHtmlInternal == html

\* What the viewer renders.
RenderedFile == IF controlled THEN extFile ELSE pendingFile
RenderedHtml == IF controlled THEN extHtml ELSE html

\* ---------------------------------------------------------------- handlers
\* Each handler is the handler of DocumentViewer.tsx.  Where the host is told
\* of a change (onFileChange, onConversionComplete, onError) the call is
\* written next to the state change it reports; without a host it does
\* nothing.
\* A control carrying disabled={isConverting} delivers no event while a
\* conversion is in flight.
ControlsEnabled == ~isConverting

\* Faulty variant: the selected file is converted but not stored.
handleFileChangeNotStored(file) ==
    /\ ControlsEnabled
    /\ fileName' = file
    /\ pendingFile' = pendingFile
    /\ convert(file, getConvertOptions)
    /\ onFileChange(Some(file))
    /\ lastEvent' = "select"
    /\ UNCHANGED <<settingsVars, showAdvanced, host, extHtml, onErrorLog, edits>>
    /\ UNCHANGED otherViews

handleFileChange(file) ==
    /\ ControlsEnabled
    /\ fileName' = file
    /\ pendingFile' = Some(file)
    /\ convert(file, getConvertOptions)
    /\ onFileChange(Some(file))
    /\ lastEvent' = "select"
    /\ UNCHANGED <<settingsVars, showAdvanced, host, extHtml, onErrorLog, edits>>
    /\ UNCHANGED otherViews

Edited == edits < MaxEdits /\ edits' = edits + 1

\* Faulty variant: the options are those of the render before the change.
withPreviousCommentMode(options, mode) == options

\* { ...getConvertOptions(), commentRenderMode: getCommentRenderMode(mode) }
withCommentMode(options, mode) ==
    [options EXCEPT !.commentRenderMode = getCommentRenderMode(mode)]

handleCommentModeChange(mode) ==
    /\ ControlsEnabled
    /\ mode # commentMode
    /\ Edited
    /\ commentMode' = mode
    /\ convertIfLoaded(withCommentMode(getConvertOptions, mode))
    /\ lastEvent' = "commentMode"
    /\ UNCHANGED <<fileVars, enablePagination, paginationScale, showPageNumbers,
                   pageTitle, cssPrefix, fabricateClasses, additionalCss,
                   commentCssClassPrefix, showAdvanced, hostVars>>
    /\ UNCHANGED otherViews

handlePaginationToggle(enabled) ==
    /\ ControlsEnabled
    /\ enabled # enablePagination
    /\ Edited
    /\ enablePagination' = enabled
    /\ convertIfLoaded(
          [commentRenderMode |-> getCommentRenderMode(commentMode),
           pageTitle |-> pageTitle,
           cssPrefix |-> cssPrefix,
           fabricateClasses |-> fabricateClasses,
           additionalCss |-> IF additionalCss = "" THEN Null ELSE Some(additionalCss),
           commentCssClassPrefix |-> commentCssClassPrefix,
           paginationMode |-> PaginationModeOf(enabled),
           paginationScale |-> IF enabled THEN Some(paginationScale) ELSE Null])
    /\ lastEvent' = "pagination"
    /\ UNCHANGED <<fileVars, commentMode, paginationScale, showPageNumbers,
                   pageTitle, cssPrefix, fabricateClasses, additionalCss,
                   commentCssClassPrefix, showAdvanced, hostVars>>
    /\ UNCHANGED otherViews

\* The slider and the page-number box exist only while pagination is on.
onPaginationScaleChange(scale) ==
    /\ ControlsEnabled
    /\ enablePagination
    /\ scale # paginationScale
    /\ Edited
    /\ paginationScale' = scale
    /\ lastEvent' = "scale"
    /\ UNCHANGED <<fileVars, commentMode, enablePagination, showPageNumbers,
                   pageTitle, cssPrefix, fabricateClasses, additionalCss,
                   commentCssClassPrefix, showAdvanced, hookVars, hostVars>>
    /\ UNCHANGED otherViews

\* onMouseUp / onTouchEnd of the slider
onPaginationScaleRelease ==
    /\ ControlsEnabled
    /\ enablePagination
    /\ reconvert
    /\ lastEvent' = "release"
    /\ UNCHANGED <<fileVars, settingsVars, showAdvanced, hostVars, edits>>
    /\ UNCHANGED otherViews

onShowPageNumbersChange(checked) ==
    /\ ControlsEnabled
    /\ enablePagination
    /\ checked # showPageNumbers
    /\ Edited
    /\ showPageNumbers' = checked
    /\ lastEvent' = "pageNumbers"
    /\ UNCHANGED <<fileVars, commentMode, enablePagination, paginationScale,
                   pageTitle, cssPrefix, fabricateClasses, additionalCss,
                   commentCssClassPrefix, showAdvanced, hookVars, hostVars>>
    /\ UNCHANGED otherViews

toggleAdvanced ==
    /\ showAdvanced' = ~showAdvanced
    /\ lastEvent' = "advanced"
    /\ UNCHANGED <<fileVars, settingsVars, hookVars, hostVars, edits>>
    /\ UNCHANGED otherViews

\* The advanced inputs exist only while the advanced section is open.
AdvancedEnabled == showAdvanced /\ ControlsEnabled

onPageTitleChange(value) ==
    /\ AdvancedEnabled
    /\ value # pageTitle
    /\ Edited
    /\ pageTitle' = value
    /\ lastEvent' = "pageTitle"
    /\ UNCHANGED <<fileVars, commentMode, enablePagination, paginationScale,
                   showPageNumbers, cssPrefix, fabricateClasses, additionalCss,
                   commentCssClassPrefix, showAdvanced, hookVars, hostVars>>
    /\ UNCHANGED otherViews

onCssPrefixChange(value) ==
    /\ AdvancedEnabled
    /\ value # cssPrefix
    /\ Edited
    /\ cssPrefix' = value
    /\ lastEvent' = "cssPrefix"
    /\ UNCHANGED <<fileVars, commentMode, enablePagination, paginationScale,
                   showPageNumbers, pageTitle, fabricateClasses, additionalCss,
                   commentCssClassPrefix, showAdvanced, hookVars, hostVars>>
    /\ UNCHANGED otherViews

onCommentCssClassPrefixChange(value) ==
    /\ AdvancedEnabled
    /\ value # commentCssClassPrefix
    /\ Edited
    /\ commentCssClassPrefix' = value
    /\ lastEvent' = "commentCssClassPrefix"
    /\ UNCHANGED <<fileVars, commentMode, enablePagination, paginationScale,
                   showPageNumbers, pageTitle, cssPrefix, fabricateClasses,
                   additionalCss, showAdvanced, hookVars, hostVars>>
    /\ UNCHANGED otherViews

onAdditionalCssChange(value) ==
    /\ AdvancedEnabled
    /\ value # additionalCss
    /\ Edited
    /\ additionalCss' = value
    /\ lastEvent' = "additionalCss"
    /\ UNCHANGED <<fileVars, commentMode, enablePagination, paginationScale,
                   showPageNumbers, pageTitle, cssPrefix, fabricateClasses,
                   commentCssClassPrefix, showAdvanced, hookVars, hostVars>>
    /\ UNCHANGED otherViews

\* onBlur of the page title, the two prefixes and the additional CSS
onTextBlur ==
    /\ AdvancedEnabled
    /\ reconvert
    /\ lastEvent' = "blur"
    /\ UNCHANGED <<fileVars, settingsVars, showAdvanced, hostVars, edits>>
    /\ UNCHANGED otherViews

onFabricateClassesChange(checked) ==
    /\ AdvancedEnabled
    /\ checked # fabricateClasses
    /\ Edited
    /\ fabricateClasses' = checked
    /\ convertIfLoaded([getConvertOptions EXCEPT !.fabricateClasses = checked])
    /\ lastEvent' = "fabricateClasses"
    /\ UNCHANGED <<fileVars, commentMode, enablePagination, paginationScale,
                   showPageNumbers, pageTitle, cssPrefix, additionalCss,
                   commentCssClassPrefix, showAdvanced, hostVars>>
    /\ UNCHANGED otherViews

\* ---------------------------------------------------------------- clear
\* The part of the state handleClear works on.
ViewState ==
    [fileName |-> fileName, pendingFile |-> pendingFile, html |-> html,
     error |-> error, isConverting |-> isConverting, currentReq |-> currentReq]

\* Faulty variant: setPendingFile(null) is missing.
handleClearKeepsFile(s) == [clear(s) EXCEPT !.fileName = ""]

\* Faulty variant: the call of clear() is missing.
handleClearWithoutClear(s) == [s EXCEPT !.fileName = "", !.pendingFile = Null]

handleClearOn(s) == [clear(s) EXCEPT !.fileName = "", !.pendingFile = Null]

\* The Clear button is rendered only while there is html.
ClearShown == html # Null

handleClear ==
    /\ ClearShown
    /\ LET t == handleClearOn(ViewState) IN
         /\ fileName' = t.fileName
         /\ pendingFile' = t.pendingFile
         /\ html' = t.html
         /\ error' = t.error
         /\ isConverting' = t.isConverting
         /\ currentReq' = t.currentReq
    /\ onFileChange(Null)
    /\ lastEvent' = "clear"
    /\ UNCHANGED <<settingsVars, showAdvanced, requestSeq, inflight,
                   host, extHtml, onErrorLog, edits>>
    /\ UNCHANGED otherViews

\* ---------------------------------------------------------------- engine results
\* The html the engine produces for request r.
HtmlOf(r) == Some(r.id)

\* The engine resolves request r.
Resolved(r) ==
    /\ inflight' = inflight \ {r}
    /\ IF IsCurrent(r)
       THEN /\ html' = HtmlOf(r)
            /\ error' = Null
            /\ isConverting' = FALSE
            /\ onConversionComplete(HtmlOf(r))
            /\ lastEvent' = "applied"
       ELSE /\ UNCHANGED <<html, error, isConverting, extHtml>>
            /\ lastEvent' = "dropped"
    /\ UNCHANGED <<fileVars, settingsVars, showAdvanced, requestSeq, currentReq,
                   host, extFile, onErrorLog, edits>>
    /\ UNCHANGED otherViews

\* Faulty variant: a failure leaves the previous html on display.
RejectedKeepsHtml(r, e) ==
    /\ inflight' = inflight \ {r}
    /\ IF IsCurrent(r)
       THEN /\ error' = Some(e)
            /\ html' = html
            /\ isConverting' = FALSE
            /\ onError(e)
            /\ lastEvent' = "failed"
       ELSE /\ UNCHANGED <<html, error, isConverting, onErrorLog>>
            /\ lastEvent' = "dropped"
    /\ UNCHANGED <<fileVars, settingsVars, showAdvanced, requestSeq, currentReq,
                   host, extFile, extHtml, edits>>
    /\ UNCHANGED otherViews

\* Faulty variant: the error of a dropped result is notified too.
RejectedNotifiesDropped(r, e) ==
    /\ inflight' = inflight \ {r}
    /\ onError(e)
    /\ IF IsCurrent(r)
       THEN /\ error' = Some(e)
            /\ html' = Null
            /\ isConverting' = FALSE
            /\ lastEvent' = "failed"
       ELSE /\ UNCHANGED <<html, error, isConverting>>
            /\ lastEvent' = "dropped"
    /\ UNCHANGED <<fileVars, settingsVars, showAdvanced, requestSeq, currentReq,
                   host, extFile, extHtml, edits>>
    /\ UNCHANGED otherViews

\* The engine rejects request r with error e.
Rejected(r, e) ==
    /\ inflight' = inflight \ {r}
    /\ IF IsCurrent(r)
       THEN /\ error' = Some(e)
            /\ html' = Null
            /\ isConverting' = FALSE
            /\ onError(e)
            /\ lastEvent' = "failed"
       ELSE /\ UNCHANGED <<html, error, isConverting, onErrorLog>>
            /\ lastEvent' = "dropped"
    /\ UNCHANGED <<fileVars, settingsVars, showAdvanced, requestSeq, currentReq,
                   host, extFile, extHtml, edits>>
    /\ UNCHANGED otherViews

\* ================================================================ RevisionPanel
\* src/src/components/RevisionPanel.tsx.  A string the code looks into (a
\* property name, a property value) is a sequence of one-character strings.

MaxRevisions == 3         \* records in the revisions prop
MaxProperties == 2        \* entries of one formatChange, old and new together
MaxValueLength == 100     \* a longer property value is not shown
MaxTextLength == 150      \* a longer revision text is truncated

Repeat(c, n) == [i \in 1..n |-> c]

LowerCase == <<"a","b","c","d","e","f","g","h","i","j","k","l","m",
               "n","o","p","q","r","s","t","u","v","w","x","y","z">>
UpperCase == <<"A","B","C","D","E","F","G","H","I","J","K","L","M",
               "N","O","P","Q","R","S","T","U","V","W","X","Y","Z">>
IsUpperCase(c) == \E i \in DOMAIN UpperCase : UpperCase[i] = c
toUpperCase(c) ==
    IF \E i \in DOMAIN LowerCase : LowerCase[i] = c
    THEN UpperCase[CHOOSE i \in DOMAIN LowerCase : LowerCase[i] = c]
    ELSE c

\* String.prototype.includes
includes(s, pattern) ==
    \E i \in 1..(Len(s) - Len(pattern) + 1) :
        SubSeq(s, i, i + Len(pattern) - 1) = pattern

\* String.prototype.trim
RECURSIVE trimStart(_)
trimStart(s) == IF s # <<>> /\ Head(s) = " " THEN trimStart(Tail(s)) ELSE s
RECURSIVE trimEnd(_)
trimEnd(s) ==
    IF s # <<>> /\ s[Len(s)] = " " THEN trimEnd(SubSeq(s, 1, Len(s) - 1)) ELSE s
trim(s) == trimEnd(trimStart(s))

\* ---------------------------------------------------------------- revisions
RevisionTypes == {"Insertion", "Deletion", "Move", "FormatChange"}
FilterTypes == {"all", "insertions", "deletions", "moves", "formatting"}

isInsertion(rev) == rev.revisionType = "Insertion"
isDeletion(rev) == rev.revisionType = "Deletion"
isMove(rev) == rev.revisionType = "Move"
isFormatChange(rev) == rev.revisionType = "FormatChange"

Revision(type, source, group, text, formatChange) ==
    [revisionType |-> type, isMoveSource |-> source, moveGroupId |-> group,
     text |-> text, formatChange |-> formatChange]

\* Of a revision's text the panel uses the length alone: the text is its length.
ShortText == 1
LongText == MaxTextLength + 1

\* The records the revisions prop is made of: one of each kind, the move as
\* its source and its destination.
SampleRevisions ==
    { Revision("Insertion", Null, Null, LongText, Null),
      Revision("Deletion", Null, Null, ShortText, Null),
      Revision("Move", Some(TRUE), Some(1), ShortText, Null),
      Revision("Move", Some(FALSE), Some(1), ShortText, Null),
      Revision("FormatChange", Null, Null, 0, Null) }

SeqsUpTo(S, n) == UNION { [1..k -> S] : k \in 0..n }

\* ---------------------------------------------------------------- filter and stats
FilterTest(kind, rev) ==
    CASE kind = "insertions" -> isInsertion(rev)
      [] kind = "deletions" -> isDeletion(rev)
      [] kind = "moves" -> isMove(rev)
      [] kind = "formatting" -> isFormatChange(rev)
      [] OTHER -> TRUE

Reverse(s) == [i \in 1..Len(s) |-> s[Len(s) + 1 - i]]

\* Faulty variant: the matching records, newest first.
filteredRevisionsReversed ==
    IF filter = "all" THEN revisions
    ELSE LET Test(rev) == FilterTest(filter, rev) IN Reverse(SelectSeq(revisions, Test))

\* Array.prototype.filter keeps the elements that pass, in order: SelectSeq.
filteredRevisions ==
    IF filter = "all" THEN revisions
    ELSE LET Test(rev) == FilterTest(filter, rev) IN SelectSeq(revisions, Test)

\* Faulty variant: a move is counted once per pair (its source only).
statsPerMovePair ==
    LET IsSource(rev) == isMove(rev) /\ rev.isMoveSource = Some(TRUE) IN
    [total |-> Len(revisions),
     insertions |-> Len(SelectSeq(revisions, isInsertion)),
     deletions |-> Len(SelectSeq(revisions, isDeletion)),
     moves |-> Len(SelectSeq(revisions, IsSource)),
     formatting |-> Len(SelectSeq(revisions, isFormatChange))]

stats ==
    [total |-> Len(revisions),
     insertions |-> Len(SelectSeq(revisions, isInsertion)),
     deletions |-> Len(SelectSeq(revisions, isDeletion)),
     moves |-> Len(SelectSeq(revisions, isMove)),
     formatting |-> Len(SelectSeq(revisions, isFormatChange))]

\* The panel with records draws its header (the filter) and its list.
PanelShown == Len(revisions) # 0

setFilter(value) ==
    /\ PanelShown
    /\ value # filter
    /\ filter' = value
    /\ lastEvent' = "filter"
    /\ UNCHANGED <<revisions, expandedIds, viewerVars, annotVars>>

needsTruncation(rev) == rev.text > MaxTextLength

\* The "Show more" / "Show less" button of the list item at index.
toggleExpanded(index) ==
    /\ PanelShown
    /\ index + 1 \in DOMAIN filteredRevisions
    /\ needsTruncation(filteredRevisions[index + 1])
    /\ expandedIds' = IF index \in expandedIds
                      THEN expandedIds \ {index}
                      ELSE expandedIds \cup {index}
    /\ lastEvent' = "expand"
    /\ UNCHANGED <<revisions, filter, viewerVars, annotVars>>

\* ---------------------------------------------------------------- format changes
\* A property object is the sequence of its <<key, value>> entries in
\* Object.entries order, its keys distinct; one without entries stands for an
\* absent one as well, the code going through neither.
PropertyKeys == { <<"b","o","l","d">>, <<"B","o","l","d">>,
                  <<"f","o","n","t","S","i","z","e">> }
PropertyValues ==
    { <<"t","r","u","e">>, <<"f","a","l","s","e">>, <<"s","i","n","g","l","e">>,
      Repeat("v", MaxValueLength),
      <<>>, <<"<","w",":","b","/",">">>, <<"x","m","l","n","s",":","w">>,
      <<"U","n","i","d","=","7">>, Repeat("v", MaxValueLength + 1) }

isValidPropertyValue(value) ==
    /\ value # <<>>
    /\ ~includes(value, <<"<">>)
    /\ ~includes(value, <<"x","m","l","n","s">>)
    /\ ~includes(value, <<"U","n","i","d","=">>)
    /\ Len(value) <= MaxValueLength

\* replace(/([A-Z])/g, ' $1')
RECURSIVE spaceCapitals(_)
spaceCapitals(s) ==
    IF s = <<>> THEN <<>>
    ELSE (IF IsUpperCase(Head(s)) THEN <<" ", Head(s)>> ELSE <<Head(s)>>)
         \o spaceCapitals(Tail(s))

\* replace(/^./, (str) => str.toUpperCase())
capitalize(s) == IF s = <<>> THEN s ELSE <<toUpperCase(Head(s))>> \o Tail(s)

formatPropertyName(name) == trim(capitalize(spaceCapitals(name)))

\* Faulty variant: the raw value is shown.
formatPropertyValueRaw(value) == value

formatPropertyValue(value) ==
    CASE value = <<"t","r","u","e">> -> <<"Y","e","s">>
      [] value = <<"f","a","l","s","e">> -> <<"N","o">>
      [] value = <<"s","i","n","g","l","e">> -> <<"S","i","n","g","l","e">>
      [] value = <<"d","o","u","b","l","e">> -> <<"D","o","u","b","l","e">>
      [] OTHER -> value

HasKey(properties, key) == \E i \in DOMAIN properties : properties[i][1] = key
\* properties?.[key]
ValueOf(properties, key) ==
    IF HasKey(properties, key)
    THEN Some(properties[CHOOSE i \in DOMAIN properties : properties[i][1] = key][2])
    ELSE Null

FormatChangeItem(property, oldValue, newValue) ==
    [property |-> property, oldValue |-> oldValue, newValue |-> newValue]

\* The first loop: the entries of oldProperties, from entry i on.
RECURSIVE fromOldProperties(_, _, _)
fromOldProperties(oldProperties, newProperties, i) ==
    IF i > Len(oldProperties) THEN <<>>
    ELSE LET key == oldProperties[i][1]
             value == oldProperties[i][2]
             newValue == ValueOf(newProperties, key)
             rest == fromOldProperties(oldProperties, newProperties, i + 1)
         IN IF ~isValidPropertyValue(value) THEN rest
            ELSE << FormatChangeItem(
                      formatPropertyName(key),
                      Some(formatPropertyValue(value)),
                      IF newValue # Null /\ isValidPropertyValue(newValue[1])
                      THEN Some(formatPropertyValue(newValue[1]))
                      ELSE Null) >> \o rest

\* The keys the first loop has put in processedKeys.
processedKeys(oldProperties) ==
    { oldProperties[i][1] :
        i \in { j \in DOMAIN oldProperties : isValidPropertyValue(oldProperties[j][2]) } }

\* The second loop: the entries of newProperties, from entry i on.
RECURSIVE fromNewProperties(_, _, _)
fromNewProperties(newProperties, processed, i) ==
    IF i > Len(newProperties) THEN <<>>
    ELSE LET key == newProperties[i][1]
             value == newProperties[i][2]
             rest == fromNewProperties(newProperties, processed, i + 1)
         IN IF key \in processed \/ ~isValidPropertyValue(value) THEN rest
            ELSE << FormatChangeItem(formatPropertyName(key), Null,
                                     Some(formatPropertyValue(value))) >> \o rest

getFormatChanges(revision) ==
    IF revision.formatChange = Null THEN <<>>
    ELSE LET oldProperties == revision.formatChange[1].oldProperties
             newProperties == revision.formatChange[1].newProperties
         IN fromOldProperties(oldProperties, newProperties, 1)
            \o fromNewProperties(newProperties, processedKeys(oldProperties), 1)

\* What the list shows under a revision.
formatChanges(revision) ==
    IF isFormatChange(revision) THEN getFormatChanges(revision) ELSE <<>>

\* The property objects with n entries.
PropertyObjects ==
    [ n \in 0..MaxProperties |->
        { p \in [1..n -> PropertyKeys \X PropertyValues] :
            \A i, j \in DOMAIN p : p[i][1] = p[j][1] => i = j } ]

FormatChange(oldProperties, newProperties) ==
    [oldProperties |-> oldProperties, newProperties |-> newProperties]

\* A format-change revision: with no formatChange, or with one whose
\* property objects have MaxProperties entries at most between them.
FormatRevision(formatChange) ==
    Revision("FormatChange", Null, Null, LongText, formatChange)

\* ================================================================ AnnotationViewer
\* src/src/components/AnnotationViewer.tsx.  The component state and its
\* handlers are those of the source.  annotations, documentBytes, isLoading,
\* add and remove come from useAnnotations, and the second isLoading from
\* useDocumentStructure, hooks of the docxodus package; they are written
\* from the design document (sections 4.3, 5 and 6).  A file chosen is a
\* file the engine can load: the hook's error, which only a failed load
\* sets, is left out.

MaxCalls == 3         \* add and remove calls issued in one run

\* A file name is the sequence of its parts, '.docx' being one part.
AnnotFiles == { <<"a", ".docx">>, <<"b", ".DOCX">> }
AnnotErrors == {"e1"}
Labels == {"", "Key Term"}
SearchTexts == {"", "liability"}
OccurrenceInputs == {"", "0", "1", "2"}
\* The same with what else can be typed into the number field.
OccurrenceTexts == OccurrenceInputs \cup {"-1", "e"}

\* The annotations the engine reports for a file as it was chosen.
FileAnnots(file) ==
    IF file = <<"b", ".DOCX">>
    THEN << [id |-> <<"x", 1>>, labelId |-> "key_term", label |-> "Key Term"] >>
    ELSE <<>>

\* How often a text occurs in the document.
Occurrences(file, text) == IF text = "liability" THEN 1 ELSE 0

\* A document buffer: the file it comes from and the annotations it holds.
Buffer(file, annots) == [file |-> file, annots |-> annots]
FileBytes(file) == Buffer(file, FileAnnots(file))

DefaultNewAnnotation ==
    [id |-> <<>>, labelId |-> "", label |-> "", color |-> "#FFEB3B",
     searchText |-> "", occurrence |-> 1]

isLoading == isLoadingAnnotations \/ isLoadingStructure

\* The part below the upload row is rendered for a loaded file only.
SectionShown == annotFile # Null /\ ~isLoading

formVars == <<showAddForm, newAnnotation, isAdding, addError>>
annotHookVars == <<annotations, documentBytes, isLoadingAnnotations,
                   isLoadingStructure>>

\* ---------------------------------------------------------------- file
\* useAnnotations / useDocumentStructure on a change of their file argument:
\* what belonged to the previous file is discarded, results still awaited
\* for it are of no interest any more, and a file is loaded.
\* Faulty variant: the mutated buffer outlives the file it was made from.
fileArgumentChangedKeepsBytes(file) ==
    /\ annotations' = <<>>
    /\ documentBytes' = documentBytes
    /\ isLoadingAnnotations' = (file # Null)
    /\ isLoadingStructure' = (file # Null)
    /\ calls' = { [c EXCEPT !.stale = TRUE] : c \in calls }

fileArgumentChanged(file) ==
    /\ annotations' = <<>>
    /\ documentBytes' = Null
    /\ isLoadingAnnotations' = (file # Null)
    /\ isLoadingStructure' = (file # Null)
    /\ calls' = { [c EXCEPT !.stale = TRUE] : c \in calls }

annotHandleFileChange(selectedFile) ==
    /\ ~isLoading
    /\ annotFile' = Some(selectedFile)
    /\ annotFileName' = selectedFile
    /\ showAddForm' = FALSE
    /\ addError' = Null
    /\ fileArgumentChanged(Some(selectedFile))
    /\ lastEvent' = "file"
    /\ downloaded' = Null
    /\ UNCHANGED <<newAnnotation, isAdding, callSeq, uncaught, viewerVars, panelVars>>

\* Faulty variant: Clear of the annotation viewer also empties what the
\* document viewer displays.
annotHandleClearBoth ==
    /\ annotFile # Null
    /\ ~isLoading
    /\ annotFile' = Null
    /\ annotFileName' = <<>>
    /\ showAddForm' = FALSE
    /\ addError' = Null
    /\ fileArgumentChanged(Null)
    /\ lastEvent' = "file"
    /\ downloaded' = Null
    /\ html' = Null
    /\ UNCHANGED <<newAnnotation, isAdding, callSeq, uncaught, panelVars>>
    /\ UNCHANGED <<fileVars, settingsVars, showAdvanced, isConverting, error,
                   requestSeq, currentReq, inflight, hostVars, edits>>

annotHandleClear ==
    /\ annotFile # Null
    /\ ~isLoading
    /\ annotFile' = Null
    /\ annotFileName' = <<>>
    /\ showAddForm' = FALSE
    /\ addError' = Null
    /\ fileArgumentChanged(Null)
    /\ lastEvent' = "file"
    /\ downloaded' = Null
    /\ UNCHANGED <<newAnnotation, isAdding, callSeq, uncaught, viewerVars, panelVars>>

\* The engine's list for the file arrives.
annotationsLoaded ==
    /\ isLoadingAnnotations
    /\ isLoadingAnnotations' = FALSE
    /\ annotations' = FileAnnots(annotFile[1])
    /\ lastEvent' = "load"
    /\ downloaded' = Null
    /\ UNCHANGED <<annotFile, annotFileName, formVars, documentBytes,
                   isLoadingStructure, calls, callSeq,
                   uncaught, viewerVars, panelVars>>

structureLoaded ==
    /\ isLoadingStructure
    /\ isLoadingStructure' = FALSE
    /\ lastEvent' = "load"
    /\ downloaded' = Null
    /\ UNCHANGED <<annotFile, annotFileName, formVars, annotations, documentBytes,
                   isLoadingAnnotations, calls, callSeq,
                   uncaught, viewerVars, panelVars>>

\* ---------------------------------------------------------------- add form
FormShown == SectionShown /\ showAddForm

formFrame ==
    /\ downloaded' = Null
    /\ UNCHANGED <<annotFile, annotFileName, annotHookVars, calls, callSeq,
                   uncaught, viewerVars, panelVars>>

openAddForm ==
    /\ SectionShown
    /\ ~showAddForm
    /\ showAddForm' = TRUE
    /\ lastEvent' = "form"
    /\ formFrame
    /\ UNCHANGED <<newAnnotation, isAdding, addError>>

cancelAddForm ==
    /\ FormShown
    /\ showAddForm' = FALSE
    /\ addError' = Null
    /\ lastEvent' = "form"
    /\ formFrame
    /\ UNCHANGED <<newAnnotation, isAdding>>

onLabelChange(value) ==
    /\ FormShown
    /\ value # newAnnotation.label
    /\ newAnnotation' = [newAnnotation EXCEPT !.label = value]
    /\ lastEvent' = "form"
    /\ formFrame
    /\ UNCHANGED <<showAddForm, isAdding, addError>>

onSearchTextChange(value) ==
    /\ FormShown
    /\ value # newAnnotation.searchText
    /\ newAnnotation' = [newAnnotation EXCEPT !.searchText = value]
    /\ lastEvent' = "form"
    /\ formFrame
    /\ UNCHANGED <<showAddForm, isAdding, addError>>

\* parseInt of what the number input holds; Null is NaN.
parseInt(text) ==
    CASE text = "0" -> Some(0)
      [] text = "1" -> Some(1)
      [] text = "2" -> Some(2)
      [] text = "-1" -> Some(-1)
      [] OTHER -> Null

\* x || 1 for a number x
OrOne(x) == IF x = Null \/ x = Some(0) THEN 1 ELSE x[1]

onOccurrenceChange(text) ==
    /\ FormShown
    /\ newAnnotation' = [newAnnotation EXCEPT !.occurrence = OrOne(parseInt(text))]
    /\ newAnnotation' # newAnnotation
    /\ lastEvent' = "form"
    /\ formFrame
    /\ UNCHANGED <<showAddForm, isAdding, addError>>

\* ---------------------------------------------------------------- engine
\* An outcome of an engine call: done, refused (success: false) or thrown.
Outcome(kind, message) == [kind |-> kind, message |-> message]
Outcomes ==
    {Outcome("ok", ""), Outcome("refused", "")}
        \cup { Outcome("thrown", e) : e \in AnnotErrors }

\* The annotation the engine makes of a request.
AnnotationOf(request) ==
    [id |-> request.id, labelId |-> request.labelId, label |-> request.label]

Without(annots, id) ==
    LET Other(a) == a.id # id IN SelectSeq(annots, Other)

\* What the engine may answer to an add: it anchors the annotation at the
\* occurrence asked for when the text occurs that often and refuses
\* otherwise; any call may throw.
addOutcomes(basis, request) ==
    { o \in Outcomes :
        \/ o.kind = "thrown"
        \/ /\ o.kind = "ok"
           /\ request.occurrence \in 1..Occurrences(basis.file, request.searchText)
        \/ /\ o.kind = "refused"
           /\ request.occurrence \notin 1..Occurrences(basis.file, request.searchText) }

\* To a remove: it takes the annotation out, an unknown id being no error.
removeOutcomes == { o \in Outcomes : o.kind \in {"ok", "thrown"} }

addedBytes(basis, request) ==
    Buffer(basis.file, Append(basis.annots, AnnotationOf(request)))
removedBytes(basis, id) == Buffer(basis.file, Without(basis.annots, id))

\* The buffer a call is made on: the mutated one, or else the file's own.
CurrentBuffer ==
    IF documentBytes # Null THEN documentBytes[1] ELSE FileBytes(annotFile[1])

Call(seq, kind, request, id) ==
    [seq |-> seq, kind |-> kind, stale |-> FALSE, basis |-> CurrentBuffer,
     request |-> request, id |-> id]

\* Faulty variant: a result is taken in whatever file is loaded by then.
resultAppliedWhenStale(c, outcome) == outcome.kind = "ok"

\* Whether useAnnotations takes the result of call c into its state: the
\* engine succeeded and the file the call was made for is still the one
\* loaded.
resultApplied(c, outcome) == outcome.kind = "ok" /\ ~c.stale

\* ---------------------------------------------------------------- add
\* Faulty variant: the label alone is required.
hasLabel(form) == form.label # ""

hasRequiredFields(form) == form.label # "" /\ form.searchText # ""

\* label.toLowerCase().replace(/\s+/g, '_')
toLabelId(label) == IF label = "Key Term" THEN "key_term" ELSE label

\* Date.now(): a millisecond clock that never runs backwards.  At a call it
\* reads a value of its own, the number of the call, or still the value it
\* had at the call before.
DateNow == {callSeq, callSeq + 1} \ {0}

\* `annot-${Date.now()}`
GeneratedId(now) == <<"annot-", now>>

\* Faulty variant: no id is generated.
addRequestWithoutId(form, now) ==
    [id |-> form.id,
     labelId |-> IF form.labelId # "" THEN form.labelId ELSE toLabelId(form.label),
     label |-> form.label, color |-> form.color,
     searchText |-> form.searchText,
     occurrence |-> IF form.occurrence # 0 THEN form.occurrence ELSE 1]

addRequest(form, now) ==
    [id |-> IF form.id # <<>> THEN form.id ELSE GeneratedId(now),
     labelId |-> IF form.labelId # "" THEN form.labelId ELSE toLabelId(form.label),
     label |-> form.label, color |-> form.color,
     searchText |-> form.searchText,
     occurrence |-> IF form.occurrence # 0 THEN form.occurrence ELSE 1]

handleAddAnnotation ==
    /\ FormShown
    /\ ~isAdding
    /\ IF ~hasRequiredFields(newAnnotation)
       THEN /\ addError' = Some("Label and search text are required")
            /\ lastEvent' = "addInvalid"
            /\ UNCHANGED <<isAdding, calls, callSeq>>
       ELSE /\ callSeq < MaxCalls
            /\ isAdding' = TRUE
            /\ addError' = Null
            /\ callSeq' = callSeq + 1
            /\ \E now \in DateNow :
                 LET request == addRequest(newAnnotation, now) IN
                   calls' = calls \cup {Call(callSeq + 1, "add", Some(request), request.id)}
            /\ lastEvent' = "add"
    /\ downloaded' = Null
    /\ UNCHANGED <<annotFile, annotFileName, showAddForm, newAnnotation,
                   annotHookVars, uncaught, viewerVars, panelVars>>

\* Faulty variant: a failure is not reported.
addFailureSilent(outcome) == Null

\* The message handleAddAnnotation sets for an add that did not succeed.
addFailure(outcome) ==
    IF outcome.kind = "thrown" THEN Some(outcome.message)
    ELSE Some("Failed to add annotation")

\* Faulty variant: setIsAdding(false) is not in a finally block, a thrown
\* error leaves the flag raised.
addSettledNoFinally(c, outcome) ==
    /\ c.kind = "add"
    /\ outcome \in addOutcomes(c.basis, c.request[1])
    /\ calls' = calls \ {c}
    /\ IF resultApplied(c, outcome)
       THEN /\ annotations' = Append(annotations, AnnotationOf(c.request[1]))
            /\ documentBytes' = Some(addedBytes(c.basis, c.request[1]))
       ELSE UNCHANGED <<annotations, documentBytes>>
    /\ IF outcome.kind = "ok"
       THEN /\ newAnnotation' = DefaultNewAnnotation
            /\ showAddForm' = FALSE
            /\ addError' = addError
            /\ lastEvent' = "added"
       ELSE /\ addError' = addFailure(outcome)
            /\ lastEvent' = "addFailed"
            /\ UNCHANGED <<newAnnotation, showAddForm>>
    /\ isAdding' = (outcome.kind = "thrown")
    /\ downloaded' = Null
    /\ UNCHANGED <<annotFile, annotFileName, isLoadingAnnotations, isLoadingStructure, callSeq, uncaught, viewerVars, panelVars>>

\* The engine answers add call c: useAnnotations takes the result in, then
\* handleAddAnnotation goes on after its await.
addSettled(c, outcome) ==
    /\ c.kind = "add"
    /\ outcome \in addOutcomes(c.basis, c.request[1])
    /\ calls' = calls \ {c}
    /\ IF resultApplied(c, outcome)
       THEN /\ annotations' = Append(annotations, AnnotationOf(c.request[1]))
            /\ documentBytes' = Some(addedBytes(c.basis, c.request[1]))
       ELSE UNCHANGED <<annotations, documentBytes>>
    /\ IF outcome.kind = "ok"
       THEN /\ newAnnotation' = DefaultNewAnnotation
            /\ showAddForm' = FALSE
            /\ addError' = addError
            /\ lastEvent' = "added"
       ELSE /\ addError' = addFailure(outcome)
            /\ lastEvent' = "addFailed"
            /\ UNCHANGED <<newAnnotation, showAddForm>>
    /\ isAdding' = FALSE
    /\ downloaded' = Null
    /\ UNCHANGED <<annotFile, annotFileName, isLoadingAnnotations, isLoadingStructure, callSeq, uncaught, viewerVars, panelVars>>

\* ---------------------------------------------------------------- remove
Listed(id) == \E i \in DOMAIN annotations : annotations[i].id = id

\* The remove button of a listed annotation.
handleRemoveAnnotation(annotationId) ==
    /\ SectionShown
    /\ Listed(annotationId)
    /\ callSeq < MaxCalls
    /\ callSeq' = callSeq + 1
    /\ calls' = calls \cup {Call(callSeq + 1, "remove", Null, annotationId)}
    /\ lastEvent' = "remove"
    /\ downloaded' = Null
    /\ UNCHANGED <<annotFile, annotFileName, formVars, annotHookVars,
                   uncaught, viewerVars, panelVars>>

\* Faulty variant: no try / catch around the call.
removeEscapesWhenThrown(outcome) == outcome.kind = "thrown"

\* Whether an outcome of remove leaves handleRemoveAnnotation as an exception.
removeEscapes(outcome) == FALSE

\* The engine answers remove call c.  The list becomes the one the engine
\* returns, or loses the record locally; the two differ only when another
\* result has come in since the call was made.
removeSettled(c, outcome) ==
    /\ c.kind = "remove"
    /\ outcome \in removeOutcomes
    /\ calls' = calls \ {c}
    /\ IF resultApplied(c, outcome)
       THEN /\ annotations' \in { removedBytes(c.basis, c.id).annots,
                                  Without(annotations, c.id) }
            /\ documentBytes' = Some(removedBytes(c.basis, c.id))
       ELSE UNCHANGED <<annotations, documentBytes>>
    /\ uncaught' = (uncaught \/ removeEscapes(outcome))
    /\ lastEvent' = IF outcome.kind = "ok" THEN "removed" ELSE "removeFailed"
    /\ downloaded' = Null
    /\ UNCHANGED <<annotFile, annotFileName, formVars, isLoadingAnnotations,
                   isLoadingStructure, callSeq, viewerVars, panelVars>>

\* ---------------------------------------------------------------- download
\* fileName.replace('.docx', '-annotated.docx'): the first '.docx' part.
annotatedName(name) ==
    IF \E i \in DOMAIN name : name[i] = ".docx"
    THEN LET i == CHOOSE k \in DOMAIN name :
                    /\ name[k] = ".docx"
                    /\ \A j \in 1..(k - 1) : name[j] # ".docx"
         IN SubSeq(name, 1, i - 1) \o <<"-annotated", ".docx">>
              \o SubSeq(name, i + 1, Len(name))
    ELSE name

\* Faulty variant: with no mutated buffer the file itself is exported.
handleDownloadAlways(bytes, name) ==
    IF bytes = Null THEN Some([name |-> annotatedName(name), content |-> FileBytes(name)])
    ELSE Some([name |-> annotatedName(name), content |-> bytes[1]])

\* The file handleDownload hands to the browser, if any.
handleDownloadOn(bytes, name) ==
    IF bytes = Null THEN Null
    ELSE Some([name |-> annotatedName(name), content |-> bytes[1]])

DownloadShown == SectionShown /\ documentBytes # Null /\ Len(annotations) > 0

handleDownload ==
    /\ DownloadShown
    /\ downloaded' = handleDownloadOn(documentBytes, annotFileName)
    /\ lastEvent' = "download"
    /\ UNCHANGED <<annotFile, annotFileName, formVars, annotHookVars, calls,
                   callSeq, uncaught, viewerVars, panelVars>>

\* ---------------------------------------------------------------- specification
InitViewer ==
    /\ fileName = ""
    /\ commentMode = "disabled"
    /\ pendingFile = Null
    /\ enablePagination = FALSE
    /\ paginationScale = 8
    /\ showPageNumbers = TRUE
    /\ pageTitle = "Document"
    /\ cssPrefix = "docx-"
    /\ fabricateClasses = TRUE
    /\ additionalCss = ""
    /\ commentCssClassPrefix = "comment-"
    /\ showAdvanced = FALSE
    /\ html = Null
    /\ isConverting = FALSE
    /\ error = Null
    /\ requestSeq = 0
    /\ currentReq = 0
    /\ inflight = {}
    /\ extFile = Null
    /\ extHtml = Null
    /\ onErrorLog = <<>>
    /\ edits = 0
    /\ lastEvent = "init"

Next ==
    \/ \E file \in Files : handleFileChange(file)
    \/ \E mode \in CommentModes : handleCommentModeChange(mode)
    \/ \E enabled \in BOOLEAN : handlePaginationToggle(enabled)
    \/ \E scale \in Scales : onPaginationScaleChange(scale)
    \/ onPaginationScaleRelease
    \/ \E checked \in BOOLEAN : onShowPageNumbersChange(checked)
    \/ toggleAdvanced
    \/ \E value \in PageTitles : onPageTitleChange(value)
    \/ \E value \in CssPrefixes : onCssPrefixChange(value)
    \/ \E value \in CommentCssPrefixes : onCommentCssClassPrefixChange(value)
    \/ \E value \in AdditionalCsses : onAdditionalCssChange(value)
    \/ onTextBlur
    \/ \E checked \in BOOLEAN : onFabricateClassesChange(checked)
    \/ handleClear
    \/ \E r \in inflight : Resolved(r)
    \/ \E r \in inflight, e \in EngineErrors : Rejected(r, e)

\* The other components, out of use.
PanelIdle == revisions = <<>> /\ filter = "all" /\ expandedIds = {}
InitAnnotations ==
    /\ annotFile = Null
    /\ annotFileName = <<>>
    /\ showAddForm = FALSE
    /\ newAnnotation = DefaultNewAnnotation
    /\ isAdding = FALSE
    /\ addError = Null
    /\ annotations = <<>>
    /\ documentBytes = Null
    /\ isLoadingAnnotations = FALSE
    /\ isLoadingStructure = FALSE
    /\ calls = {}
    /\ callSeq = 0
    /\ uncaught = FALSE
    /\ downloaded = Null
OtherViewsIdle == PanelIdle /\ InitAnnotations

\* The component as it stands in the sources: no props.
Init == InitViewer /\ host = "none" /\ OtherViewsIdle
Spec == Init /\ [][Next]_vars

\* The viewer given an onError callback.
InitOnError == InitViewer /\ host = "onError" /\ OtherViewsIdle
SpecOnError == InitOnError /\ [][Next]_vars

\* The viewer with and without a controlling host.
InitControlled == InitViewer /\ host \in {"none", "controlled"} /\ OtherViewsIdle
SpecControlled == InitControlled /\ [][Next]_vars

\* The revision panel over a list of tracked changes.
ViewerIdle == InitViewer /\ host = "none"
InitPanel == filter = "all" /\ expandedIds = {}
NextPanel ==
    \/ \E value \in FilterTypes : setFilter(value)
    \/ \E index \in 0..(MaxRevisions - 1) : toggleExpanded(index)

InitRevisions ==
    /\ ViewerIdle
    /\ revisions \in SeqsUpTo(SampleRevisions, MaxRevisions)
    /\ InitPanel
    /\ InitAnnotations
SpecRevisions == InitRevisions /\ [][NextPanel]_vars

\* The revision panel over one format-change revision.
InitFormat ==
    /\ ViewerIdle
    /\ \/ revisions = << FormatRevision(Null) >>
       \/ \E a, b \in 0..MaxProperties :
            /\ a + b <= MaxProperties
            /\ \E o \in PropertyObjects[a], n \in PropertyObjects[b] :
                 revisions = << FormatRevision(Some(FormatChange(o, n))) >>
    /\ InitPanel
    /\ InitAnnotations
SpecFormat == InitFormat /\ [][NextPanel]_vars

\* The annotation viewer.
NextAnnotations ==
    \/ \E selectedFile \in AnnotFiles : annotHandleFileChange(selectedFile)
    \/ annotHandleClear
    \/ annotationsLoaded
    \/ structureLoaded
    \/ openAddForm
    \/ cancelAddForm
    \/ \E value \in Labels : onLabelChange(value)
    \/ \E value \in SearchTexts : onSearchTextChange(value)
    \/ \E text \in OccurrenceInputs : onOccurrenceChange(text)
    \/ handleAddAnnotation
    \/ \E c \in calls, outcome \in Outcomes : addSettled(c, outcome)
    \/ \E annotationId \in { annotations[i].id : i \in DOMAIN annotations } :
         handleRemoveAnnotation(annotationId)
    \/ \E c \in calls, outcome \in Outcomes : removeSettled(c, outcome)
    \/ handleDownload

InitAnnotationViewer == ViewerIdle /\ PanelIdle /\ InitAnnotations
SpecAnnotations == InitAnnotationViewer /\ [][NextAnnotations]_vars

\* The add form of the annotation viewer, with all that its occurrence field
\* takes.
NextAddForm ==
    \/ \E selectedFile \in AnnotFiles : annotHandleFileChange(selectedFile)
    \/ annotHandleClear
    \/ annotationsLoaded
    \/ structureLoaded
    \/ openAddForm
    \/ cancelAddForm
    \/ \E value \in Labels : onLabelChange(value)
    \/ \E value \in SearchTexts : onSearchTextChange(value)
    \/ \E text \in OccurrenceTexts : onOccurrenceChange(text)
    \/ handleAddAnnotation
    \/ \E c \in calls, outcome \in Outcomes : addSettled(c, outcome)
SpecAddForm == InitAnnotationViewer /\ [][NextAddForm]_vars

\* The same with an engine that answers every add it is given.
AddAnswered == \E c \in calls, outcome \in Outcomes : addSettled(c, outcome)
SpecAddFormFair == SpecAddForm /\ WF_vars(AddAnswered)

\* The document viewer and the annotation viewer side by side, each with
\* its own state and hooks, for the first MaxOwnerCalls requests, calls and
\* settings changes of the two together.
MaxOwnerCalls == 2
OwnersBudget == requestSeq' + callSeq' + edits' <= MaxOwnerCalls
NextOwners ==
    \/ (\E file \in Files : handleFileChange(file)) /\ OwnersBudget
    \/ (\E mode \in CommentModes : handleCommentModeChange(mode)) /\ OwnersBudget
    \/ handleClear
    \/ \E r \in inflight : Resolved(r)
    \/ \E r \in inflight, e \in EngineErrors : Rejected(r, e)
    \/ \E selectedFile \in AnnotFiles : annotHandleFileChange(selectedFile)
    \/ annotHandleClear
    \/ annotationsLoaded
    \/ structureLoaded
    \/ openAddForm
    \/ \E value \in Labels : onLabelChange(value)
    \/ \E value \in SearchTexts : onSearchTextChange(value)
    \/ handleAddAnnotation /\ OwnersBudget
    \/ \E c \in calls, outcome \in Outcomes : addSettled(c, outcome)
    \/ (\E annotationId \in { annotations[i].id : i \in DOMAIN annotations } :
          handleRemoveAnnotation(annotationId)) /\ OwnersBudget
    \/ \E c \in calls, outcome \in Outcomes : removeSettled(c, outcome)
    \/ handleDownload
SpecOwners == Init /\ [][NextOwners]_vars

\* ---------------------------------------------------------------- types
TypeOK ==
    /\ pendingFile \in {Null} \cup {Some(f) : f \in Files}
    /\ fileName \in {""} \cup Files
    /\ commentMode \in CommentModes
    /\ paginationScale \in Scales
    /\ html \in {Null} \cup {Some(i) : i \in 1..requestSeq}
    /\ error \in {Null} \cup {Some(e) : e \in EngineErrors}
    /\ isConverting \in BOOLEAN
    /\ requestSeq \in 0..MaxRequests
    /\ currentReq \in 0..requestSeq
    /\ \A r \in inflight : r.id \in 1..requestSeq
    /\ edits \in 0..MaxEdits
    /\ host \in Hosts
    /\ Len(onErrorLog) <= requestSeq

\* ---------------------------------------------------------------- result states
Converting == isConverting
Converted == ~isConverting /\ html # Null
Failed == ~isConverting /\ error # Null
Idle == ~isConverting /\ html = Null /\ error = Null

\* How many of the four result states hold.
StatesHolding ==
    Cardinality({i \in 1..4 : <<Idle, Converting, Converted, Failed>>[i]})

\* A step in which the engine hands back the result of request r.
Delivers(r) == r \in inflight /\ inflight' = inflight \ {r}

\* Request r is the most recently issued one and the file is still loaded.
Latest(r) == r.id = requestSeq /\ pendingFile # Null

resultVars == <<html, error, isConverting>>

\* ---------------------------------------------------------------- C1
\* C1: last request wins.  The result of a request that is not the most
\* recently issued one is never applied (html, error and the in-flight flag
\* keep their values when it is delivered), and the delivery of the most
\* recently issued request leaves exactly that request's outcome: its html and
\* no error, or its error and no html, with the in-flight flag lowered.  Once
\* every request has been delivered, html on display is the last request's.
C1_LastRequestWins ==
    /\ [][\A r \in inflight : Delivers(r) =>
            IF Latest(r)
            THEN /\ ~isConverting'
                 /\ \/ html' = HtmlOf(r) /\ error' = Null
                    \/ html' = Null /\ error' \in {Some(e) : e \in EngineErrors}
            ELSE UNCHANGED resultVars]_vars
    /\ [](html # Null /\ ~isConverting => html = Some(requestSeq))

\* B was issued while A was in flight, B's html is on display, and A's result
\* came back last and was dropped.
C1_Witness ==
    /\ lastEvent = "dropped"
    /\ pendingFile # Null
    /\ ~isConverting
    /\ html = Some(requestSeq)

\* ---------------------------------------------------------------- C2
SettingsChanged == settingsVars' # settingsVars
RequestIssued == requestSeq' = requestSeq + 1
ImmediateChanged ==
    \/ commentMode' # commentMode
    \/ enablePagination' # enablePagination
    \/ fabricateClasses' # fabricateClasses

\* A field whose request, if any, is left to the release of its control.
DeferredChanged ==
    \/ paginationScale' # paginationScale
    \/ pageTitle' # pageTitle
    \/ cssPrefix' # cssPrefix
    \/ commentCssClassPrefix' # commentCssClassPrefix
    \/ additionalCss' # additionalCss

\* C2 as stated: every settings change comes with a conversion request if and
\* only if a file is loaded.  (Read leniently: for a slider or a text field
\* the request may wait for the release of the control.)
C2_Original ==
    [][SettingsChanged =>
         IF pendingFile = Null
         THEN ~RequestIssued
         ELSE RequestIssued \/ DeferredChanged]_vars

\* C2, amended: no conversion request is issued while no file is loaded (a
\* settings change then changes the stored settings only).  With a file
\* loaded, a change of commentMode, of the pagination toggle or of
\* fabricateClasses issues a request in the same step; a change of
\* paginationScale, pageTitle, cssPrefix, commentCssClassPrefix or
\* additionalCss issues none itself, the request is issued when the control is
\* released (mouse-up, touch-end, blur); a change of showPageNumbers issues
\* none.
C2_Amended ==
    /\ [][pendingFile = Null /\ pendingFile' = Null => ~RequestIssued]_vars
    /\ [][SettingsChanged =>
            IF ImmediateChanged
            THEN RequestIssued <=> pendingFile # Null
            ELSE UNCHANGED hookVars]_vars
    /\ [][lastEvent' \in {"release", "blur"} =>
            /\ UNCHANGED settingsVars
            /\ RequestIssued <=> pendingFile # Null]_vars

\* showPageNumbers has just been changed with a file loaded, and nothing is
\* in flight.
C2_Witness ==
    /\ lastEvent = "pageNumbers"
    /\ pendingFile # Null
    /\ inflight = {}
    /\ ~isConverting

\* ---------------------------------------------------------------- C3
\* C3 as stated: exactly one result state holds; Idle iff no file is loaded
\* and there is neither html nor error; the in-flight flag is never raised
\* together with an error; error and html never coexist once the latest
\* request has resolved.
C3_Original ==
    /\ StatesHolding = 1
    /\ Idle <=> (pendingFile = Null /\ html = Null /\ error = Null)
    /\ ~(isConverting /\ error # Null)
    /\ ~isConverting => ~(html # Null /\ error # Null)

\* C3, amended: exactly one result state holds; Idle iff no file is loaded and
\* there is neither html nor error; error and html never coexist once the
\* latest request has resolved; while the in-flight flag is raised the error
\* on display, if any, is the one of the previous request (a request issued
\* from Failed leaves it displayed until the new result arrives), and no error
\* appears while the flag stays raised.
C3_Amended ==
    /\ [](StatesHolding = 1)
    /\ [](Idle <=> (pendingFile = Null /\ html = Null /\ error = Null))
    /\ [](~isConverting => ~(html # Null /\ error # Null))
    /\ [][isConverting' /\ error' # Null => error' = error]_vars

\* A request issued from Failed is in flight and the previous error is still
\* displayed.
C3_Witness == isConverting /\ error # Null /\ pendingFile # Null

\* ---------------------------------------------------------------- C4
\* C4: clear() from any state leaves no pending file, no html, no error and
\* the in-flight flag lowered (Idle), and clearing twice gives the state that
\* clearing once gives; a step of the Clear button ends in that state.
C4_ClearIdempotent ==
    /\ [](LET t == handleClearOn(ViewState) IN
            /\ t.pendingFile = Null /\ t.fileName = ""
            /\ t.html = Null /\ t.error = Null /\ ~t.isConverting
            /\ handleClearOn(t) = t)
    /\ [][lastEvent' = "clear" =>
            /\ ViewState' = handleClearOn(ViewState)
            /\ Idle' /\ pendingFile' = Null]_vars

\* Clear has just run on a state that had html on display.
C4_Witness == lastEvent = "clear" /\ Idle /\ pendingFile = Null /\ requestSeq > 0

\* ---------------------------------------------------------------- C5
\* C5: after clear() during a conversion, the delivery of that conversion's
\* result changes nothing observable, and as long as no file is selected the
\* orchestrator is Idle.
C5_ClearDropsInFlight ==
    /\ [][\A r \in inflight : Delivers(r) /\ pendingFile = Null =>
            UNCHANGED <<resultVars, fileVars, extFile, extHtml, onErrorLog>>]_vars
    /\ [](pendingFile = Null => Idle)

\* The result of a request cleared while in flight has just been dropped.
C5_Witness == lastEvent = "dropped" /\ pendingFile = Null /\ Idle

\* ---------------------------------------------------------------- C6
\* C6: the step that selects a file stores it as the pending file, raises the
\* in-flight flag and hands the engine a request for that file, leaving html
\* and error as they were; while the request is in flight html and error
\* change only when the result of the latest request arrives (or on clear()).
C6_SelectFile ==
    /\ [][lastEvent' = "select" =>
            /\ pendingFile' # Null
            /\ fileName' = pendingFile'[1]
            /\ isConverting'
            /\ \E r \in inflight' \ inflight :
                  r.file = pendingFile'[1] /\ r.id = requestSeq'
            /\ html' = html /\ error' = error]_vars
    /\ [][isConverting /\ (html' # html \/ error' # error) =>
            \/ lastEvent' = "clear"
            \/ \E r \in inflight : Delivers(r) /\ Latest(r)]_vars

\* A file has just been selected from Failed: the request is in flight and the
\* previous error is still there.
C6_Witness ==
    /\ lastEvent = "select"
    /\ isConverting
    /\ error # Null
    /\ requestSeq >= 2

\* ---------------------------------------------------------------- C7
\* C7: when the engine rejects the most recently issued request the
\* orchestrator is Failed: the error is the engine's, the in-flight flag is
\* lowered and no html is displayed.
C7_RejectionFails ==
    /\ [](lastEvent = "failed" => Failed /\ html = Null)
    /\ [][\A r \in inflight : Delivers(r) /\ Latest(r) /\ html' = Null =>
            ~isConverting' /\ error' \in {Some(e) : e \in EngineErrors}]_vars

\* The latest request failed after an earlier one had succeeded (the
\* controlling host still holds the earlier html).
C7_Witness == lastEvent = "failed" /\ extHtml # Null /\ html = Null /\ Failed

\* ---------------------------------------------------------------- C8
\* C8: in Failed the file that failed is still the pending file (so a settings
\* update converts it again), and clear() is possible.
C8_FailedKeepsFileAndClear ==
    Failed => pendingFile # Null /\ ENABLED handleClear

\* ---------------------------------------------------------------- C9
\* A step in which a conversion fails: the result of the latest request is
\* delivered and leaves an error.
ConversionFails ==
    /\ \E r \in inflight : Delivers(r) /\ Latest(r)
    /\ ~isConverting'
    /\ error' # Null

\* C9: onError is invoked exactly in the steps in which a conversion fails,
\* once, with the error the orchestrator displays; before any failure (on
\* mount, after a success, after a dropped result) it has not been invoked.
C9_OnErrorExactlyOnFailure ==
    /\ [][IF ConversionFails
          THEN onErrorLog' = Append(onErrorLog, error'[1])
          ELSE onErrorLog' = onErrorLog]_vars
    /\ [](lastEvent = "init" => onErrorLog = <<>>)
    /\ [](onErrorLog # <<>> /\ lastEvent = "failed" =>
            Some(onErrorLog[Len(onErrorLog)]) = error)

\* One failure has been notified, and a stale result dropped afterwards has
\* notified nothing.
C9_Witness ==
    /\ Len(onErrorLog) = 1
    /\ lastEvent = "dropped"
    /\ pendingFile # Null

CountOf(type) ==
    Cardinality({ i \in DOMAIN revisions : revisions[i].revisionType = type })
MoveSources == { i \in DOMAIN revisions : isMove(revisions[i]) /\ revisions[i].isMoveSource = Some(TRUE) }
MoveDestinations == { i \in DOMAIN revisions : isMove(revisions[i]) /\ revisions[i].isMoveSource = Some(FALSE) }

\* C11: the four counts of stats are the numbers of Insertion, Deletion, Move
\* and FormatChange records of the list; a move record counts once whether
\* it is a source or a destination, so a pair counts twice.
C11_StatsCountRecords ==
    /\ stats.insertions = CountOf("Insertion")
    /\ stats.deletions = CountOf("Deletion")
    /\ stats.moves = CountOf("Move")
    /\ stats.formatting = CountOf("FormatChange")
    /\ stats.moves = Cardinality(MoveSources) + Cardinality(MoveDestinations)

\* A list holding both records of one move, and records of other kinds.
C11_Witness ==
    /\ MoveSources # {} /\ MoveDestinations # {}
    /\ stats.moves = 2
    /\ stats.total = 3

\* The positions of the list the current filter lets through.
Matching == { i \in DOMAIN revisions : FilterTest(filter, revisions[i]) }

\* C12: the filtered list is the stable sub-sequence of the matching
\* records: as many entries as there are matching records, the k-th entry
\* being the k-th matching record; under 'all' it is the list itself.
C12_FilterStable ==
    /\ Len(filteredRevisions) = Cardinality(Matching)
    /\ \A i \in Matching :
         filteredRevisions[Cardinality({ j \in Matching : j <= i })] = revisions[i]
    /\ filter = "all" => filteredRevisions = revisions

\* Two different matching records with another record between them.
C12_Witness ==
    /\ filter = "moves"
    /\ Matching = {1, 3}
    /\ revisions[1] # revisions[3]
    /\ filteredRevisions = << revisions[1], revisions[3] >>

\* ---------------------------------------------------------------- format diff claims
\* A raw value the diff is said not to show.
LooksRaw(value) ==
    \/ includes(value, <<"<">>)
    \/ includes(value, <<"x","m","l","n","s">>)
    \/ includes(value, <<"U","n","i","d","=">>)
    \/ Len(value) > MaxValueLength

KeysOf(properties) == { properties[i][1] : i \in DOMAIN properties }
ValuesOf(properties) == { properties[i][2] : i \in DOMAIN properties }

\* A property of format change fc one of whose raw values looks raw.
Excluded(fc, key) ==
    \E properties \in {fc.oldProperties, fc.newProperties} :
        /\ HasKey(properties, key)
        /\ LooksRaw(ValueOf(properties, key)[1])

\* The listed format-change revisions that carry a formatChange.
ListedFormatChanges ==
    { rev.formatChange[1] :
        rev \in { filteredRevisions[i] :
                    i \in { j \in DOMAIN filteredRevisions :
                              /\ isFormatChange(filteredRevisions[j])
                              /\ filteredRevisions[j].formatChange # Null } } }

ShownFor(fc) == getFormatChanges(FormatRevision(Some(fc)))

\* The diff the order rule gives, properties with a raw-looking value left out.
ExpectedChanges(fc) ==
    LET old == fc.oldProperties
        new == fc.newProperties
        OldKept(e) == ~Excluded(fc, e[1])
        NewKept(e) == ~HasKey(old, e[1]) /\ ~Excluded(fc, e[1])
        first == SelectSeq(old, OldKept)
        second == SelectSeq(new, NewKept)
    IN [ i \in 1..Len(first) |->
           FormatChangeItem(
             formatPropertyName(first[i][1]),
             Some(formatPropertyValue(first[i][2])),
             IF HasKey(new, first[i][1])
             THEN Some(formatPropertyValue(ValueOf(new, first[i][1])[1]))
             ELSE Null) ]
       \o [ i \in 1..Len(second) |->
              FormatChangeItem(formatPropertyName(second[i][1]), Null,
                               Some(formatPropertyValue(second[i][2]))) ]

\* C13: the diff has first one entry per key of oldProperties, in its order,
\* paired with the value newProperties has for the key; then the keys of
\* newProperties that oldProperties lacks, in its order, without an old
\* value; a revision without formatChange has the empty diff.  (Properties
\* with a raw-looking value are left out, values are non-empty.)
C13_DiffOrder ==
    /\ \A i \in DOMAIN filteredRevisions :
         filteredRevisions[i].formatChange = Null => formatChanges(filteredRevisions[i]) = <<>>
    /\ \A fc \in ListedFormatChanges :
         <<>> \notin ValuesOf(fc.oldProperties) \cup ValuesOf(fc.newProperties)
            => ShownFor(fc) = ExpectedChanges(fc)

\* C14: a property with a raw-looking value, old or new, has no entry in
\* the diff (no entry under its display name, when no other property of the
\* format change shares that name).
C14_ExcludedEntirely ==
    \A fc \in ListedFormatChanges :
      \A key \in KeysOf(fc.oldProperties) \cup KeysOf(fc.newProperties) :
         /\ Excluded(fc, key)
         /\ \A other \in (KeysOf(fc.oldProperties) \cup KeysOf(fc.newProperties)) \ {key} :
              formatPropertyName(other) # formatPropertyName(key)
         => \A j \in DOMAIN ShownFor(fc) :
              ShownFor(fc)[j].property # formatPropertyName(key)

Acceptable(value) == value # <<>> /\ ~LooksRaw(value)

\* How a value is said to be shown.
Display(value) ==
    IF value = <<"t","r","u","e">> THEN <<"Y","e","s">>
    ELSE IF value = <<"f","a","l","s","e">> THEN <<"N","o">>
    ELSE formatPropertyValue(value)

\* The entries of the diff that stand for the entries of oldProperties up
\* to the i-th.
OldRank(fc, i) ==
    Cardinality({ j \in 1..i : Acceptable(fc.oldProperties[j][2]) })

\* C15: a key of both property objects, its two values acceptable, has
\* exactly one entry: its display name with both values in display form,
\* 'true' as 'Yes' and 'false' as 'No'.  Keys pair by their raw form: a key
\* of oldProperties alone has an entry without a new value, whatever the
\* display names of the keys of newProperties, and no key has two entries.
C15_PairedEntry ==
    \A fc \in ListedFormatChanges :
      LET old == fc.oldProperties
          new == fc.newProperties
          shown == ShownFor(fc)
      IN /\ Len(shown) <= Cardinality(KeysOf(old) \cup KeysOf(new))
         /\ \A i \in DOMAIN old :
              Acceptable(old[i][2]) =>
                /\ OldRank(fc, i) \in DOMAIN shown
                /\ shown[OldRank(fc, i)].property = formatPropertyName(old[i][1])
                /\ shown[OldRank(fc, i)].oldValue = Some(Display(old[i][2]))
                /\ IF HasKey(new, old[i][1])
                   THEN Acceptable(ValueOf(new, old[i][1])[1]) =>
                          shown[OldRank(fc, i)].newValue
                            = Some(Display(ValueOf(new, old[i][1])[1]))
                   ELSE shown[OldRank(fc, i)].newValue = Null
         /\ formatPropertyName(<<"b","o","l","d">>) = <<"B","o","l","d">>

\* old {bold: 'true'}, new {bold: 'false'} listed as Bold, Yes, No.
C15_Witness ==
    /\ filter \in {"all", "formatting"}
    /\ revisions = << FormatRevision(Some(FormatChange(
                        << << <<"b","o","l","d">>, <<"t","r","u","e">> >> >>,
                        << << <<"b","o","l","d">>, <<"f","a","l","s","e">> >> >>))) >>
    /\ formatChanges(revisions[1])
         = << FormatChangeItem(<<"B","o","l","d">>, Some(<<"Y","e","s">>), Some(<<"N","o">>)) >>


\* ================================================================ AnnotationViewer claims
\* The call whose answer the step takes in, as a set.
Answered == calls \ calls'
AddClicked == lastEvent' \in {"add", "addInvalid"}

\* C16: a click on Add with an empty label or an empty search text sets the
\* validation message and nothing else: no call is made, isAdding stays
\* false, annotations and documentBytes stay.
C16_InvalidAddRejected ==
    [][ AddClicked /\ (newAnnotation.label = "" \/ newAnnotation.searchText = "")
          => /\ addError' = Some("Label and search text are required")
             /\ calls' = calls /\ callSeq' = callSeq
             /\ ~isAdding /\ ~isAdding'
             /\ UNCHANGED <<annotations, documentBytes>> ]_vars

\* The form with a label and no search text, refused.
C16_Witness ==
    /\ lastEvent = "addInvalid"
    /\ newAnnotation.label # "" /\ newAnnotation.searchText = ""
    /\ addError = Some("Label and search text are required")
    /\ calls = {} /\ ~isAdding

\* C17: when the engine reports success for an add made on the loaded
\* file, the list grows by the returned annotation at its end, what was
\* listed stays in place, documentBytes is the buffer the engine made, and
\* the annotation has a generated, non-empty id.
C17_AddAppends ==
    [][ \A c \in Answered :
          lastEvent' = "added" /\ ~c.stale
            => /\ Len(annotations') = Len(annotations) + 1
               /\ SubSeq(annotations', 1, Len(annotations)) = annotations
               /\ annotations'[Len(annotations')] = AnnotationOf(c.request[1])
               /\ documentBytes' = Some(addedBytes(c.basis, c.request[1]))
               /\ annotations'[Len(annotations')].id # <<>>
               /\ \E now \in 1..c.seq :
                    annotations'[Len(annotations')].id = GeneratedId(now) ]_vars

\* An annotation added behind the one the file came with.
C17_Witness ==
    /\ lastEvent = "added"
    /\ Len(annotations) = 2
    /\ annotations[1] = FileAnnots(<<"b", ".DOCX">>)[1]
    /\ annotations[2].label = "Key Term"
    /\ documentBytes = Some(Buffer(<<"b", ".DOCX">>, annotations))

\* C18: when the engine refuses or throws on an add or a remove,
\* annotations and documentBytes stay as they are; after a failed add the
\* Add button is usable again and addError holds a message.
C18_FailureKeepsState ==
    [][ /\ lastEvent' \in {"addFailed", "removeFailed"} /\ Answered # {}
          => UNCHANGED <<annotations, documentBytes, annotFile>>
        /\ lastEvent' = "addFailed" /\ Answered # {}
          => /\ addError' # Null /\ addError' # Some("")
             /\ ~isAdding'
             /\ UNCHANGED <<showAddForm, newAnnotation>> ]_vars

\* The second occurrence of a text that occurs once, refused by the engine.
C18_Witness ==
    /\ lastEvent = "addFailed"
    /\ newAnnotation.occurrence = 2
    /\ addError = Some("Failed to add annotation")
    /\ annotations = FileAnnots(annotFile[1]) /\ documentBytes = Null
    /\ ~isAdding /\ showAddForm

RemoveAnswered == lastEvent' \in {"removed", "removeFailed"}

C20_DownloadIffBytes ==
    LET produced == handleDownloadOn(documentBytes, annotFileName) IN
      /\ produced # Null <=> documentBytes # Null
      /\ produced # Null => produced[1].content = documentBytes[1]
      /\ lastEvent = "download" => downloaded = produced /\ downloaded # Null
      /\ downloaded # Null => lastEvent = "download"

\* The buffer with an added annotation, downloaded.
C20_Witness ==
    /\ lastEvent = "download"
    /\ downloaded # Null
    /\ downloaded[1].content = documentBytes[1]
    /\ Len(downloaded[1].content.annots) > 0

\* ---------------------------------------------------------------- C21
Extensions == {".docx", ".DOCX"}

\* A name with '-annotated' put in front of its extension, at its end when
\* it has none.
SuffixBeforeExtension(name) ==
    IF Len(name) > 1 /\ name[Len(name)] \in Extensions
    THEN SubSeq(name, 1, Len(name) - 1) \o <<"-annotated", name[Len(name)]>>
    ELSE name \o <<"-annotated">>

\* C21: the name of an exported file is the name of the file chosen with
\* '-annotated' put immediately in front of its extension, whatever the name
\* (an extension in capitals included).
C21_ExportName ==
    downloaded # Null => downloaded[1].name = SuffixBeforeExtension(annotFileName)

\* ---------------------------------------------------------------- C22
\* A step that takes in the success of a call made on the file now loaded.
SucceededOnLoadedFile ==
    /\ lastEvent' \in {"added", "removed"}
    /\ \E c \in Answered : ~c.stale /\ annotFile # Null /\ c.basis.file = annotFile[1]

\* C22: documentBytes is there only as the product of an add or a remove
\* that succeeded on the file now loaded, since that file was loaded: it is
\* absent while no file is loaded and right after a file is chosen or
\* cleared, it appears or changes only in a step that takes in such a
\* success, and it is a buffer of the loaded file.
C22_BytesOnlyAfterSuccess ==
    /\ [](annotFile = Null => documentBytes = Null)
    /\ [](documentBytes # Null => documentBytes[1].file = annotFile[1])
    /\ [][lastEvent' = "file" => documentBytes' = Null]_vars
    /\ [][documentBytes' # documentBytes /\ documentBytes' # Null
            => SucceededOnLoadedFile /\ UNCHANGED annotFile]_vars

\* The success of an add made on the previous file has come in after
\* another file was chosen: there is no buffer.
C22_Witness ==
    /\ lastEvent = "added"
    /\ annotFile # Null
    /\ ~isLoading
    /\ documentBytes = Null

\* ---------------------------------------------------------------- C23
\* C23: a file chosen, over another one or after Clear, starts from what
\* the engine reports for it: the step leaves an empty list and no buffer,
\* the list stays empty until the engine's list arrives, and from then on,
\* until an add or a remove succeeds on this file, the list is the engine's
\* list for this file and there is no buffer, whatever was added to or
\* removed from the file before and whatever answers still come in for it.
\* Clear leaves the empty list and no buffer.
C23_NewFileStartsFresh ==
    /\ [][lastEvent' = "file" => annotations' = <<>> /\ documentBytes' = Null]_vars
    /\ [](isLoadingAnnotations => annotations = <<>> /\ documentBytes = Null)
    /\ [](annotFile = Null => annotations = <<>> /\ documentBytes = Null)
    /\ [](annotFile # Null /\ ~isLoadingAnnotations /\ documentBytes = Null
            => annotations = FileAnnots(annotFile[1]))
    /\ [][\A c \in Answered : c.stale => UNCHANGED <<annotations, documentBytes>>]_vars

\* a.docx is loaded after b.DOCX; the success of a remove made on b.DOCX
\* has come in since, and a.docx shows the engine's list for it, the empty
\* one, and no buffer.
C23_Witness ==
    /\ lastEvent = "removed"
    /\ annotFile = Some(<<"a", ".docx">>)
    /\ ~isLoading
    /\ annotations = FileAnnots(<<"a", ".docx">>)
    /\ documentBytes = Null

\* ---------------------------------------------------------------- C24
\* C24: the answer to an add or a remove made on a file that is no longer
\* the one loaded (another file was chosen, or Clear was clicked, since the
\* call) is dropped: annotations and documentBytes stay as they are and no
\* error message is set.
C24_LateResultDropped ==
    [][\A c \in Answered : c.stale
          => UNCHANGED <<annotations, documentBytes, addError>>]_vars

\* ---------------------------------------------------------------- C25
\* The calls awaited for the file now loaded.
AwaitedForLoadedFile == { c \in calls : ~c.stale }

\* C25: at most one engine call is awaited for the loaded file at any time:
\* an add or a remove is only issued when no other add or remove made on
\* that file is unanswered, and at most one conversion is awaited for the
\* file of the document viewer.
C25_OneCallPerFile ==
    /\ Cardinality(AwaitedForLoadedFile) <= 1
    /\ Cardinality({ r \in inflight : IsCurrent(r) }) <= 1

\* ---------------------------------------------------------------- C26
\* C26: whatever files are loaded and whatever is added and removed, no two
\* records of the annotation list have the same id.
C26_UniqueIds ==
    \A i, j \in DOMAIN annotations :
        annotations[i].id = annotations[j].id => i = j

\* ---------------------------------------------------------------- C27
\* C27: every add request handed to the engine has a label and a search
\* text that are not empty and an occurrence that is an integer of at
\* least 1, whatever was typed into the form.
C27_RequestWellFormed ==
    \A c \in calls :
        c.kind = "add"
          => /\ c.request[1].label # ""
             /\ c.request[1].searchText # ""
             /\ c.request[1].occurrence \in Nat \ {0}

\* ---------------------------------------------------------------- C28
\* The requests the step hands to the engine.
Issued == inflight' \ inflight

\* C28: the options of a conversion request are the settings as they stand
\* once the event that starts it has been handled, the field just changed
\* included, and its file is the loaded one; a request once issued stays as
\* it is until its result is delivered, whatever is changed afterwards.
C28_OptionsFresh ==
    /\ [][\A r \in Issued :
            /\ r.id = requestSeq + 1
            /\ r.options = getConvertOptions'
            /\ pendingFile' = Some(r.file)]_vars
    /\ [][RequestIssued => Issued # {}]_vars
    /\ [][\A r \in inflight : r \in inflight' \/ Delivers(r)]_vars

\* The comment mode has just been changed with a file loaded: the request in
\* flight carries the new mode.
C28_Witness ==
    /\ lastEvent = "commentMode"
    /\ pendingFile # Null
    /\ \E r \in inflight :
         /\ r.id = requestSeq
         /\ r.options.commentRenderMode # "Disabled"
         /\ r.options = getConvertOptions

\* ---------------------------------------------------------------- C29
conversionState == <<pendingFile, html, error, isConverting>>
ConversionEvents ==
    {"select", "commentMode", "clear", "applied", "failed", "dropped"}
AnnotationEvents ==
    {"file", "load", "form", "add", "addInvalid", "added", "addFailed",
     "remove", "removed", "removeFailed", "download"}

\* C29: the two owners write disjoint state.  A step of the annotation
\* viewer (a file chosen or cleared, a load, the add form, an add, a remove,
\* their answers, a download) leaves the pending file, html, error and the
\* in-flight flag of the conversion as they are; a step of the document
\* viewer (a file chosen, a setting changed, Clear, a result delivered)
\* leaves annotations and documentBytes as they are.
C29_DisjointOwners ==
    [][ /\ lastEvent' \in ConversionEvents \cup AnnotationEvents
        /\ lastEvent' \in AnnotationEvents => UNCHANGED conversionState
        /\ annotVars' # annotVars => UNCHANGED viewerVars
        /\ lastEvent' \in ConversionEvents => UNCHANGED <<annotations, documentBytes>>
        /\ viewerVars' # viewerVars => UNCHANGED annotVars ]_vars

\* The document viewer has just been cleared of a converted document while
\* the annotation viewer holds a mutated buffer, which stays.
C29_Witness ==
    /\ lastEvent = "clear"
    /\ requestSeq > 0
    /\ pendingFile = Null /\ html = Null
    /\ annotFile # Null
    /\ documentBytes # Null

\* ---------------------------------------------------------------- C30
\* The add calls the engine has not answered yet.
AddsAwaited == { c \in calls : c.kind = "add" }

\* C30: isAdding is raised exactly while an add request that passed the
\* validation awaits the engine; at most one add is awaited at any time; the
\* answer to an add lowers the flag whatever the outcome (success, success:
\* false, thrown error); with an engine that answers, a raised flag is
\* lowered in the end.
C30_FlagWhileAwaited ==
    /\ [](isAdding <=> AddsAwaited # {})
    /\ [](Cardinality(AddsAwaited) <= 1)
    /\ [](\A c \in AddsAwaited : hasRequiredFields(c.request[1]))
    /\ [][lastEvent' = "add" => ~isAdding /\ isAdding']_vars
    /\ [][lastEvent' \in {"added", "addFailed"} => isAdding /\ ~isAdding']_vars
    /\ (isAdding ~> ~isAdding)

\* An add has thrown and the flag is down again, the form still open.
C30_Witness ==
    /\ lastEvent = "addFailed"
    /\ addError = Some("e1")
    /\ ~isAdding
    /\ AddsAwaited = {}
    /\ showAddForm

====
